---------------------------- MODULE Spec2Model ----------------------------
(***************************************************************************)
(* todo-merger: the import, aggregation, ranking, override, cache and      *)
(* seen-set core behind the Flask views of src/todo_merger.                *)
(*                                                                         *)
(* Strings that the code compares character by character (sort keys) are   *)
(* sequences of code points; identifiers that are only compared for         *)
(* equality (uids, rank names, service names) are TLA+ strings.            *)
(***************************************************************************)
EXTENDS Integers, Sequences, FiniteSets, TLC

VARIABLES
    now,                   \* the wall clock read by datetime.now()
    current_cache_timer,   \* app.config["current_cache_timer"]: NoTimer or an instant
    cache_timeout_seconds, \* app.config["cache_timeout_seconds"]
    cache_file,            \* the persisted issues.json
    issues_config,         \* the persisted override mapping: uid -> rank
    seen_issues,           \* the persisted seen-set of uids
    response,              \* what the last request did and returned
    threads,               \* the in-flight /ranking requests of the threaded server
    sort_in,               \* prioritize_issues: the list handed in
    sort_by,               \* prioritize_issues: the SortSpec handed in
    sort_out,              \* prioritize_issues: the list returned
    api_issue,             \* _import_*_issues: the issue as the service's API returns it
    imported               \* _import_*_issues: the display fields of the IssueItem built

vars == << now, current_cache_timer, cache_timeout_seconds, cache_file,
           issues_config, seen_issues, response, threads,
           sort_in, sort_by, sort_out, api_issue, imported >>

appVars == << now, current_cache_timer, cache_timeout_seconds, cache_file,
              issues_config, seen_issues, response >>

sortVars == << sort_in, sort_by, sort_out >>

importVars == << api_issue, imported >>

-----------------------------------------------------------------------------
(* Text: code points, str(), comparison                                     *)

\* The empty string "".
EmptyStr == << >>

\* str.lower() on the ASCII range: "A".."Z" map to "a".."z".
Lower(s) ==
    [i \in 1..Len(s) |-> IF s[i] >= 65 /\ s[i] <= 90 THEN s[i] + 32 ELSE s[i]]

\* The decimal digits of a natural number, as text.
RECURSIVE Digits(_)
Digits(n) ==
    IF n < 10 THEN << 48 + n >> ELSE Digits(n \div 10) \o << 48 + (n % 10) >>

\* n written with two digits.
Pad2(n) == << 48 + ((n \div 10) % 10), 48 + (n % 10) >>

\* n written with four digits.
Pad4(n) == Pad2(n \div 100) \o Pad2(n % 100)

\* Python's str < str: code point by code point, a proper prefix is smaller.
RECURSIVE StrLess(_, _)
StrLess(a, b) ==
    IF b = << >> THEN FALSE
    ELSE IF a = << >> THEN TRUE
    ELSE IF a[1] # b[1] THEN a[1] < b[1]
    ELSE StrLess(Tail(a), Tail(b))

\* The proleptic Gregorian date of a day count since 1970-01-01, as datetime
\* computes it for str(): <<year, month, day>>.
CivilFromDays(days) ==
    LET z   == days + 719468
        era == z \div 146097
        doe == z - era * 146097
        yoe == (doe - doe \div 1460 + doe \div 36524 - doe \div 146096) \div 365
        doy == doe - (365 * yoe + yoe \div 4 - yoe \div 100)
        mp  == (5 * doy + 2) \div 153
        d   == doy - (153 * mp + 2) \div 5 + 1
        m   == IF mp < 10 THEN mp + 3 ELSE mp - 9
        y   == yoe + era * 400 + (IF m <= 2 THEN 1 ELSE 0)
    IN  << y, m, d >>

\* str(dt) of a UTC-aware datetime without microseconds:
\* "YYYY-MM-DD HH:MM:SS+00:00".
DatetimeStr(epoch) ==
    LET ymd == CivilFromDays(epoch \div 86400)
        sod == epoch % 86400
    IN  Pad4(ymd[1]) \o << 45 >> \o Pad2(ymd[2]) \o << 45 >> \o Pad2(ymd[3])
        \o << 32 >> \o Pad2(sod \div 3600) \o << 58 >> \o Pad2((sod % 3600) \div 60)
        \o << 58 >> \o Pad2(sod % 60) \o << 43, 48, 48, 58, 48, 48 >>

-----------------------------------------------------------------------------
(* IssueItem                                                                *)

\* A datetime value of the field updated_at (an instant, UTC, epoch seconds).
DT(epoch) == [type |-> "datetime", epoch |-> epoch, text |-> EmptyStr]

\* A str value of the field updated_at.
TXT(text) == [type |-> "str", epoch |-> 0, text |-> text]

\* The dataclass IssueItem, restricted to the identity, the source tag and the
\* fields the default SortSpec reads.
IssueItem(uid, service, due, milestone, epic, updated) ==
    [uid |-> uid, service |-> service, due_date |-> due,
     milestone_title |-> milestone, epic_title |-> epic, updated_at |-> updated]

\* The names of the modelled dataclass fields.
FieldNames ==
    {"uid", "service", "due_date", "milestone_title", "epic_title", "updated_at"}

\* getattr(issue, f) for a field a SortSpec may name.
GetAttr(issue, f) ==
    CASE f = "due_date"        -> TXT(issue.due_date)
      [] f = "milestone_title" -> TXT(issue.milestone_title)
      [] f = "epic_title"      -> TXT(issue.epic_title)
      [] f = "updated_at"      -> issue.updated_at

-----------------------------------------------------------------------------
(* Ranking engine: prioritize_issues                                        *)

\* The SortSpec used when the caller passes none.
DefaultSortBy ==
    << [f |-> "due_date", reverse |-> FALSE],
       [f |-> "milestone_title", reverse |-> TRUE],
       [f |-> "epic_title", reverse |-> TRUE],
       [f |-> "updated_at", reverse |-> TRUE] >>

\* "".join(chr(255 - ord(char)) for char in value)
Complement(value) == [i \in 1..Len(value) |-> 255 - value[i]]

\* The text a field value is compared by: a datetime by strftime("%s") (the
\* epoch seconds in decimal; the server's zone is taken to be UTC), a str by
\* lower().
KeyText(v) == IF v.type = "datetime" THEN Digits(v.epoch) ELSE Lower(v.text)

\* sort_key without the empty-value marker: every value is compared as text.
KeyPart_no_empty_marker(issue, k) ==
    LET value == KeyText(GetAttr(issue, k.f))
    IN  [empty |-> 0, value |-> IF k.reverse THEN Complement(value) ELSE value]

\* One component of sort_key: (1, None) for an empty value, else (0, value)
\* with value complemented for a descending key.
KeyPart(issue, k) ==
    LET value == KeyText(GetAttr(issue, k.f))
    IN  IF value = EmptyStr
        THEN [empty |-> 1, value |-> EmptyStr]
        ELSE [empty |-> 0,
              value |-> IF k.reverse THEN Complement(value) ELSE value]

\* sort_key(issue): the tuple of the components, one per key of the SortSpec.
sort_key(issue, spec) == [i \in 1..Len(spec) |-> KeyPart(issue, spec[i])]

\* Python's tuple < tuple on two sort keys of the same SortSpec.
RECURSIVE KeyLess(_, _)
KeyLess(a, b) ==
    IF a = << >> \/ b = << >> THEN FALSE
    ELSE IF a[1].empty # b[1].empty THEN a[1].empty < b[1].empty
    ELSE IF a[1].value # b[1].value THEN StrLess(a[1].value, b[1].value)
    ELSE KeyLess(Tail(a), Tail(b))

\* An unstable placement: the new element goes before the elements of the
\* sorted prefix that compare equal to it.
RECURSIVE InsertSorted_before_equal(_, _, _)
InsertSorted_before_equal(done, x, spec) ==
    IF done = << >> THEN << x >>
    ELSE IF ~KeyLess(sort_key(done[Len(done)], spec), sort_key(x, spec))
         THEN Append(InsertSorted_before_equal(SubSeq(done, 1, Len(done) - 1),
                                               x, spec),
                     done[Len(done)])
         ELSE Append(done, x)

\* The place sorted() gives a new element in an already sorted prefix: after
\* every element that is not greater (stability).
RECURSIVE InsertSorted(_, _, _)
InsertSorted(done, x, spec) ==
    IF done = << >> THEN << x >>
    ELSE IF KeyLess(sort_key(x, spec), sort_key(done[Len(done)], spec))
         THEN Append(InsertSorted(SubSeq(done, 1, Len(done) - 1), x, spec),
                     done[Len(done)])
         ELSE Append(done, x)

\* sorted(issues, key=sort_key)
RECURSIVE Sorted(_, _)
Sorted(issues, spec) ==
    IF issues = << >> THEN << >>
    ELSE InsertSorted(Sorted(SubSeq(issues, 1, Len(issues) - 1), spec),
                      issues[Len(issues)], spec)

\* The value None of a str field (a source that reports no due date or
\* epic): a one-element text whose element is no code point.
NoneValue == << 0 - 1 >>

\* _replace_none_with_empty_string(obj): every field that is None becomes "".
_replace_none_with_empty_string(obj) ==
    [obj EXCEPT !.due_date = IF @ = NoneValue THEN EmptyStr ELSE @,
                !.milestone_title = IF @ = NoneValue THEN EmptyStr ELSE @,
                !.epic_title = IF @ = NoneValue THEN EmptyStr ELSE @]

\* prioritize_issues(issues, sort_by): None is replaced in every task, then
\* the tasks are sorted by sort_key.
prioritize_issues(issues, spec) ==
    Sorted([i \in 1..Len(issues) |-> _replace_none_with_empty_string(issues[i])],
           spec)

-----------------------------------------------------------------------------
(* Cache manager: the timer and the persisted issues.json                   *)

\* current_cache_timer = None
NoTimer == [set |-> FALSE, at |-> 0]

\* current_cache_timer = the instant t
TimerAt(t) == [set |-> TRUE, at |-> t]

\* The default of cache_timeout_seconds.
DefaultTimeout == 600

\* get_cache_status(cache_timer, timeout_seconds): the cache is valid iff a
\* timer is set and the time since then is below the timeout.
get_cache_status(cache_timer, timeout_seconds, t) ==
    cache_timer.set /\ t - cache_timer.at < timeout_seconds

\* issues.json does not exist.
MissingFile == [kind |-> "missing", t |-> "none", elems |-> << >>]

\* issues.json holds text that is not JSON.
GarbageFile == [kind |-> "garbage", t |-> "none", elems |-> << >>]

\* issues.json holds a JSON document: an array ("arr") or an object ("obj")
\* of elems, or a number ("num").
JsonFile(t, elems) == [kind |-> "json", t |-> t, elems |-> elems]

\* A JSON object with the given keys, its values taken from rec.
JObj(keys, rec) == [t |-> "obj", keys |-> keys, rec |-> rec]

\* A JSON value that is no object (a number, or a key of the top-level
\* object met when iterating it).
JScalar(t) ==
    [t |-> t, keys |-> {},
     rec |-> IssueItem("", "", EmptyStr, EmptyStr, EmptyStr, TXT(EmptyStr))]

\* issue.convert_to_dict() as json.dump(..., default=str) writes it: every
\* field under its name, a datetime replaced by str(datetime).
ToJson(issue) ==
    JObj(FieldNames,
         [issue EXCEPT !.updated_at =
             IF issue.updated_at.type = "datetime"
             THEN TXT(DatetimeStr(issue.updated_at.epoch))
             ELSE issue.updated_at])

\* write_issues_cache(issues): the file is rewritten as the array of the
\* issues' dicts.
write_issues_cache(issues) ==
    JsonFile("arr", [i \in 1..Len(issues) |-> ToJson(issues[i])])

\* IssueItem(**element) raises TypeError unless element is a mapping whose
\* keys are all field names.
LoadsAsItem(element) == element.t = "obj" /\ element.keys \subseteq FieldNames

\* IssueItem(**element): the given fields as they are in the file, the others
\* at their defaults (updated_at: datetime.now()).
FromJson(element, t) ==
    LET r == element.rec
        txt(f, v) == IF f \in element.keys THEN v ELSE EmptyStr
    IN  IssueItem(IF "uid" \in element.keys THEN r.uid ELSE "",
                  IF "service" \in element.keys THEN r.service ELSE "",
                  txt("due_date", r.due_date),
                  txt("milestone_title", r.milestone_title),
                  txt("epic_title", r.epic_title),
                  IF "updated_at" \in element.keys THEN r.updated_at ELSE DT(t))

\* read_issues_cache(): the outcome ("ok" or the uncaught exception), the
\* issues returned and the file as the call leaves it (a missing file is
\* initialised with the empty list).
read_issues_cache(file, t) ==
    CASE file.kind = "missing" ->
            [status |-> "ok", issues |-> << >>, file |-> write_issues_cache(<< >>)]
      [] file.kind = "garbage" ->
            [status |-> "ok", issues |-> << >>, file |-> file]
      [] file.kind = "json" ->
            IF /\ file.t \in {"arr", "obj"}
               /\ \A i \in 1..Len(file.elems) : LoadsAsItem(file.elems[i])
            THEN [status |-> "ok",
                  issues |-> [i \in 1..Len(file.elems) |-> FromJson(file.elems[i], t)],
                  file |-> file]
            ELSE [status |-> "TypeError", issues |-> << >>, file |-> file]

-----------------------------------------------------------------------------
(* Aggregator                                                               *)

\* app.config["services"]: the configured sources in iteration order.
Services ==
    << [name |-> "work", kind |-> "github"], [name |-> "home", kind |-> "gitlab"] >>

\* A source adapter raised (network or authentication failure).
FetchError == [ok |-> FALSE, items |-> << >>]

\* A source adapter returned these normalised items.
Fetched(items) == [ok |-> TRUE, items |-> items]

\* get_all_issues(): the sources are asked in order and their items
\* concatenated; an adapter's exception is not caught and ends the call.
RECURSIVE GetAllFrom(_, _, _)
GetAllFrom(i, issues, fetch) ==
    IF i > Len(Services) THEN [status |-> "ok", issues |-> issues]
    ELSE IF Services[i].kind \notin {"github", "gitlab"}
         THEN GetAllFrom(i + 1, issues, fetch)
    ELSE IF ~fetch[i].ok THEN [status |-> "error", issues |-> << >>]
    ELSE GetAllFrom(i + 1, issues \o fetch[i].items, fetch)

\* get_all_issues() when the adapters answer as fetch says.
get_all_issues(fetch) == GetAllFrom(1, << >>, fetch)

-----------------------------------------------------------------------------
(* Override store and seen-set                                              *)

\* ISSUE_RANKING_TABLE: the numeric rank of a symbolic name.
RankTable ==
    [pin |-> -1, high |-> 1, normal |-> 5, low |-> 99]

\* ISSUE_RANKING_TABLE.get(rank, ISSUE_RANKING_TABLE["normal"])
RankInt(rank) == IF rank \in DOMAIN RankTable THEN RankTable[rank] ELSE RankTable["normal"]

\* set_ranking without the reset branch: the rank is always stored.
set_ranking_always_stores(config, issue, rank) ==
    IF issue = "" THEN [log |-> "", write |-> FALSE, config |-> config]
    ELSE [log |-> "Setting", write |-> TRUE,
          config |-> [k \in DOMAIN config \cup {issue} |->
                         IF k = issue THEN RankInt(rank) ELSE config[k]]]

\* set_ranking(issue, rank) on the mapping read from the override file: what it
\* logs and the mapping it writes back (nothing is written for an empty id).
set_ranking(config, issue, rank) ==
    LET rank_int == RankInt(rank)
    IN  IF issue = "" THEN [log |-> "", write |-> FALSE, config |-> config]
        ELSE IF issue \in DOMAIN config /\ config[issue] = rank_int
        THEN [log |-> "Resetting", write |-> TRUE,
              config |-> [k \in DOMAIN config \ {issue} |-> config[k]]]
        ELSE [log |-> "Setting", write |-> TRUE,
              config |-> [k \in DOMAIN config \cup {issue} |->
                             IF k = issue THEN rank_int ELSE config[k]]]

\* apply_user_issue_ranking: each issue with the rank stored for its uid, or
\* the default rank.
apply_user_issue_ranking(issues, ranking_dict) ==
    [i \in 1..Len(issues) |->
        [uid |-> issues[i].uid,
         rank |-> IF issues[i].uid \in DOMAIN ranking_dict
                  THEN ranking_dict[issues[i].uid] ELSE RankTable["normal"]]]

\* add_to_seen_issues(issues): union with the persisted seen-set.
add_to_seen_issues(seen, issues) == seen \cup {issues[i] : i \in 1..Len(issues)}

\* get_unseen_issues(issues): the uids of issues that are not in the seen-set.
get_unseen_issues(issues, seen) == {issues[i].uid : i \in 1..Len(issues)} \ seen

-----------------------------------------------------------------------------
(* The inputs the model draws from                                          *)

\* The instants at which requests arrive.
Instants == {0, 599, 601}

\* The configured cache timeouts.
Timeouts == {2, DefaultTimeout}

\* An issue a GitHub source reports, last updated 2001-09-09 01:46:39 UTC.
G1 == IssueItem("github-1", "github", EmptyStr, EmptyStr, EmptyStr, DT(999999999))

\* An issue a GitLab source reports, last updated one second later.
L1 == IssueItem("gitlab-7", "gitlab", EmptyStr, EmptyStr, EmptyStr, DT(1000000000))

\* What the adapters of the configured services may answer, one per service.
FetchOutcomes ==
    { << gh, gl >> : gh \in {FetchError, Fetched(<< G1 >>)},
                     gl \in {FetchError, Fetched(<< >>), Fetched(<< L1 >>)} }

\* The issue ids a /ranking request may carry.
IssueIds == {"", "github-1", "gitlab-7"}

\* The rank names a /ranking request may carry ("urgent" is not in the table).
RankNames == {"pin", "urgent"}

\* The id lists a /mark-as-seen request may carry, as split(",") leaves them.
SeenArgs == { << "" >>, << "github-1", "gitlab-7" >> }

\* The states a hand-edited or hand-deleted issues.json may be found in.
DamagedFiles ==
    { MissingFile,
      GarbageFile,
      JsonFile("arr", << JObj(FieldNames \cup {"rank"}, ToJson(G1).rec) >>) }

-----------------------------------------------------------------------------
(* The views and the request handlers                                       *)

\* What a handler reports: the request, whether it completed ("ok") or ended
\* in an uncaught exception ("error"), and for the index page the cache
\* decision, whether get_all_issues was invoked, the issues as obtained, the
\* issues as rendered and the new ids; for /ranking what set_ranking logged.
Resp(op, status, cache, fetched, raw, issues, new_issues, issue, rank, log) ==
    [op |-> op, status |-> status, cache |-> cache, fetched |-> fetched,
     raw |-> raw, issues |-> issues, new_issues |-> new_issues,
     issue |-> issue, rank |-> rank, log |-> log]

\* No request has been served yet.
NoResp == Resp("none", "ok", FALSE, FALSE, << >>, << >>, {}, "", "", "")

\* A handler that answers with a redirect to the index page.
Redirect(op, issue, rank, log) ==
    Resp(op, "ok", FALSE, FALSE, << >>, << >>, {}, issue, rank, log)

\* get_issues_and_stats(cache): the issues come from the cache file or from
\* the aggregator, which is followed by write_issues_cache; then the new ids,
\* the default prioritisation and the user's ranking.
get_issues_and_stats(cache, fetch, file, config, seen, t) ==
    LET got == IF cache THEN read_issues_cache(file, t)
               ELSE LET all == get_all_issues(fetch)
                    IN  [status |-> all.status, issues |-> all.issues,
                         file |-> IF all.status = "ok"
                                  THEN write_issues_cache(all.issues) ELSE file]
    IN  IF got.status # "ok"
        THEN [status |-> "error", file |-> got.file, raw |-> << >>,
              issues |-> << >>, new_issues |-> {}]
        ELSE [status |-> "ok", file |-> got.file, raw |-> got.issues,
              issues |-> apply_user_issue_ranking(
                             prioritize_issues(got.issues, DefaultSortBy), config),
              new_issues |-> get_unseen_issues(got.issues, seen)]

\* index without the reset of the timer on a miss.
IndexTimer_never_reset(cache, timer, t) == timer

\* The timer as index leaves it before it asks for the issues.
IndexTimer(cache, timer, t) == IF ~cache THEN TimerAt(t) ELSE timer

\* The adapters are asked only when the cache is not used.
AdapterAnswers(cache) == IF cache THEN {<< >>} ELSE FetchOutcomes

\* GET / when the adapters, if asked, answer as fetch says.
index_served(fetch) ==
    LET cache == get_cache_status(current_cache_timer, cache_timeout_seconds, now)
        view  == get_issues_and_stats(cache, fetch, cache_file, issues_config,
                                      seen_issues, now)
    IN  /\ current_cache_timer' = IndexTimer(cache, current_cache_timer, now)
        /\ cache_file' = view.file
        /\ response' = Resp("index", view.status, cache, ~cache, view.raw,
                            view.issues, view.new_issues, "", "", "")
        /\ UNCHANGED << now, cache_timeout_seconds, issues_config, seen_issues >>

\* GET /
index ==
    \E fetch \in AdapterAnswers(get_cache_status(current_cache_timer,
                                                 cache_timeout_seconds, now)) :
        index_served(fetch)

\* /ranking without the implicit mark-as-seen.
RankingSeen_forgets(seen, issue) == seen

\* The seen-set as /ranking leaves it.
RankingSeen(seen, issue) == add_to_seen_issues(seen, << issue >>)

\* GET /ranking?issue=..&rank=..
ranking(issue, rank) ==
    LET done == set_ranking(issues_config, issue, rank)
    IN  /\ issues_config' = done.config
        /\ seen_issues' = RankingSeen(seen_issues, issue)
        /\ response' = Redirect("ranking", issue, rank, done.log)
        /\ UNCHANGED << now, current_cache_timer, cache_timeout_seconds, cache_file >>

\* refresh_issues_cache that leaves the timer running.
refresh_keeps_timer(timer) == timer

\* refresh_issues_cache(): the timer after it.
refresh_issues_cache(timer) == NoTimer

\* GET /reload
reload ==
    /\ current_cache_timer' = refresh_issues_cache(current_cache_timer)
    /\ response' = Redirect("reload", "", "", "")
    /\ UNCHANGED << now, cache_timeout_seconds, cache_file, issues_config, seen_issues >>

\* GET /mark-as-seen?issues=..
mark_as_seen(issues) ==
    /\ seen_issues' = add_to_seen_issues(seen_issues, issues)
    /\ response' = Redirect("mark_as_seen", "", "", "")
    /\ UNCHANGED << now, current_cache_timer, cache_timeout_seconds, cache_file,
                    issues_config >>

\* POST /new: the issue is created at the tracker; the cache is refreshed
\* when the user goes back to the overview.
new_create(submit_and_index) ==
    /\ current_cache_timer' = IF submit_and_index
                              THEN refresh_issues_cache(current_cache_timer)
                              ELSE current_cache_timer
    /\ response' = Redirect("new_create", "", "", "")
    /\ UNCHANGED << now, cache_timeout_seconds, cache_file, issues_config, seen_issues >>

\* Time passes between requests.
Tick ==
    /\ \E t \in Instants : t > now /\ now' = t
    /\ UNCHANGED << current_cache_timer, cache_timeout_seconds, cache_file,
                    issues_config, seen_issues, response >>

\* The user deletes or edits issues.json by hand.
DamageCacheFile ==
    /\ \E f \in DamagedFiles : cache_file' = f
    /\ UNCHANGED << now, current_cache_timer, cache_timeout_seconds,
                    issues_config, seen_issues, response >>

-----------------------------------------------------------------------------
(* The application serving one request at a time                            *)

\* list.remove(x): the list without the first occurrence of x; a list that
\* does not hold x raises ValueError.
RECURSIVE ListRemove(_, _)
ListRemove(list, x) ==
    IF list = << >> THEN << >>
    ELSE IF Head(list) = x THEN Tail(list)
    ELSE << Head(list) >> \o ListRemove(Tail(list), x)

\* sep.join(list)
RECURSIVE Join(_, _)
Join(sep, list) ==
    IF list = << >> THEN ""
    ELSE IF Len(list) = 1 THEN list[1]
    ELSE list[1] \o sep \o Join(sep, Tail(list))

\* _sort_assignees that leaves the executing user in the list.
_sort_assignees_keeps_me(assignees, my_user_name) ==
    IF assignees = << >> THEN "" ELSE Join(", ", << "Me" >> \o assignees)

\* _sort_assignees(assignees, my_user_name): my user name is removed if
\* present (the ValueError of remove is passed over); an empty rest gives "",
\* any other "Me" and the rest joined by ", ".
_sort_assignees(assignees, my_user_name) ==
    LET rest == ListRemove(assignees, my_user_name)
    IN  IF rest = << >> THEN "" ELSE Join(", ", << "Me" >> \o rest)

\* The seconds of a day, by which timedelta splits a difference.
SecondsPerDay == 86400

\* now - dt as a timedelta: days (negative for a dt in the future) and
\* seconds in 0..86399; both instants are whole epoch seconds.
Timedelta(secs) ==
    [days |-> secs \div SecondsPerDay, seconds |-> secs % SecondsPerDay]

\* f"{n} {unit}{'s' if n > 1 else ''} ago"
Ago(n, unit) == ToString(n) \o " " \o unit \o (IF n > 1 THEN "s" ELSE "") \o " ago"

\* _time_ago with the plural form for every count.
_time_ago_always_plural(dt, t) ==
    LET diff == Timedelta(t - dt)
    IN  IF diff.days >= 365 THEN ToString(diff.days \div 365) \o " years ago"
        ELSE IF diff.days >= 30 THEN ToString(diff.days \div 30) \o " months ago"
        ELSE IF diff.days >= 7 THEN ToString(diff.days \div 7) \o " weeks ago"
        ELSE IF diff.days > 0 THEN ToString(diff.days) \o " days ago"
        ELSE IF diff.seconds >= 3600 THEN ToString(diff.seconds \div 3600) \o " hours ago"
        ELSE IF diff.seconds >= 60 THEN ToString(diff.seconds \div 60) \o " minutes ago"
        ELSE "Just now"

\* _time_ago(dt), called at the instant t = datetime.now(timezone.utc).
_time_ago(dt, t) ==
    LET diff == Timedelta(t - dt)
    IN  IF diff.days >= 365 THEN Ago(diff.days \div 365, "year")
        ELSE IF diff.days >= 30 THEN Ago(diff.days \div 30, "month")
        ELSE IF diff.days >= 7 THEN Ago(diff.days \div 7, "week")
        ELSE IF diff.days > 0 THEN Ago(diff.days, "day")
        ELSE IF diff.seconds >= 3600 THEN Ago(diff.seconds \div 3600, "hour")
        ELSE IF diff.seconds >= 60 THEN Ago(diff.seconds \div 60, "minute")
        ELSE "Just now"

\* No issue has come from a service's API.
NoApiIssue == [assignees |-> << >>, myuser |-> "", updated_at |-> 0]

\* No IssueItem has been built from an API issue.
NotImported == [done |-> FALSE, assignee_users |-> "", updated_at_display |-> ""]

\* No /ranking request is in flight.
NoThreads == << >>

\* prioritize_issues is not being exercised on its own.
NoSort == [done |-> FALSE, issues |-> << >>]

\* create_app on a first run: no timer, the configured timeout, no files.
Init ==
    /\ now = 0
    /\ current_cache_timer = NoTimer
    /\ cache_timeout_seconds \in Timeouts
    /\ cache_file = MissingFile
    /\ issues_config = << >>
    /\ seen_issues = {}
    /\ response = NoResp
    /\ threads = NoThreads
    /\ sort_in = << >>
    /\ sort_by = << >>
    /\ sort_out = NoSort
    /\ api_issue = NoApiIssue
    /\ imported = NotImported

Next ==
    \/ index /\ UNCHANGED << threads, sortVars, importVars >>
    \/ (\E issue \in IssueIds, rank \in RankNames : ranking(issue, rank))
          /\ UNCHANGED << threads, sortVars, importVars >>
    \/ reload /\ UNCHANGED << threads, sortVars, importVars >>
    \/ (\E issues \in SeenArgs : mark_as_seen(issues)) /\ UNCHANGED << threads, sortVars, importVars >>
    \/ (\E back \in BOOLEAN : new_create(back)) /\ UNCHANGED << threads, sortVars, importVars >>
    \/ Tick /\ UNCHANGED << threads, sortVars, importVars >>
    \/ DamageCacheFile /\ UNCHANGED << threads, sortVars, importVars >>

Spec == Init /\ [][Next]_vars

-----------------------------------------------------------------------------
(* Two /ranking requests served concurrently                                *)

\* The number of request threads of the development server that serve
\* /ranking at the same time (app.run serves each request in its own thread).
NumThreads == 2

\* The request threads.
Workers == 1..NumThreads

\* A thread that serves no request.
Idle == [pc |-> "idle", issue |-> "", rank |-> "", config |-> << >>, log |-> ""]

\* The override mappings a burst of requests may find.
StoredConfigs == { << >>, [k \in {"github-1"} |-> RankInt("pin")] }

\* GET /ranking arrives at thread w.
ranking_begin(w, issue, rank) ==
    /\ threads[w].pc = "idle"
    /\ threads' = [threads EXCEPT ![w] = [Idle EXCEPT !.pc = "read",
                                                      !.issue = issue, !.rank = rank]]
    /\ UNCHANGED << appVars, sortVars, importVars >>

\* set_ranking, its first half: config = read_issues_config()
ranking_read(w) ==
    /\ threads[w].pc = "read"
    /\ threads' = [threads EXCEPT ![w].pc = "write", ![w].config = issues_config]
    /\ UNCHANGED << appVars, sortVars, importVars >>

\* set_ranking, its second half: the entry is set or removed in the mapping
\* read before and write_issues_config rewrites the whole file.
ranking_write(w) ==
    /\ threads[w].pc = "write"
    /\ LET done == set_ranking(threads[w].config, threads[w].issue, threads[w].rank)
       IN  /\ issues_config' = IF done.write THEN done.config ELSE issues_config
           /\ threads' = [threads EXCEPT ![w].pc = "seen", ![w].log = done.log]
    /\ UNCHANGED << now, current_cache_timer, cache_timeout_seconds, cache_file,
                    seen_issues, response, sortVars, importVars >>

\* add_to_seen_issues(issues=[issue]) and the redirect.
ranking_seen(w) ==
    /\ threads[w].pc = "seen"
    /\ seen_issues' = RankingSeen(seen_issues, threads[w].issue)
    /\ threads' = [threads EXCEPT ![w].pc = "done"]
    /\ UNCHANGED << now, current_cache_timer, cache_timeout_seconds, cache_file,
                    issues_config, response, sortVars, importVars >>

InitConc ==
    /\ now = 0
    /\ current_cache_timer = NoTimer
    /\ cache_timeout_seconds = DefaultTimeout
    /\ cache_file = MissingFile
    /\ issues_config \in StoredConfigs
    /\ seen_issues = {}
    /\ response = NoResp
    /\ threads = [w \in Workers |-> Idle]
    /\ sort_in = << >>
    /\ sort_by = << >>
    /\ sort_out = NoSort
    /\ api_issue = NoApiIssue
    /\ imported = NotImported

NextConc ==
    \/ \E w \in Workers, issue \in IssueIds, rank \in RankNames :
          ranking_begin(w, issue, rank)
    \/ \E w \in Workers : ranking_read(w)
    \/ \E w \in Workers : ranking_write(w)
    \/ \E w \in Workers : ranking_seen(w)

SpecConc == InitConc /\ [][NextConc]_vars

-----------------------------------------------------------------------------
(* prioritize_issues on its own                                             *)

\* The longest list handed to prioritize_issues.
MaxItems == 3

\* "2024-01-01"
Due2024 == << 50, 48, 50, 52, 45, 48, 49, 45, 48, 49 >>

\* "v1"
MsV1 == << 118, 49 >>

\* "V1"
MsV1Upper == << 86, 49 >>

\* "V1.1"
MsV11 == << 86, 49, 46, 49 >>

\* "Ops"
EpicOps == << 79, 112, 115 >>

\* The issues handed to prioritize_issues: with and without due date,
\* milestone and epic (empty or None), titles in either case and one a prefix
\* of the other, and update instants one second apart whose epoch seconds
\* differ in length.
SortItems ==
    { IssueItem("gitlab-1", "gitlab", Due2024, EmptyStr, EmptyStr, DT(999999999)),
      IssueItem("gitlab-2", "gitlab", EmptyStr, MsV1, EmptyStr, DT(1000000000)),
      IssueItem("gitlab-3", "gitlab", EmptyStr, MsV11, EpicOps, DT(999999999)),
      IssueItem("gitlab-4", "gitlab", Due2024, MsV1, EmptyStr, DT(1000000000)),
      IssueItem("github-5", "github", EmptyStr, EmptyStr, EmptyStr, DT(1000000000)),
      IssueItem("github-6", "github", EmptyStr, MsV1Upper, EmptyStr, DT(1000000000)),
      IssueItem("gitlab-8", "gitlab", NoneValue, EmptyStr, NoneValue, DT(999999999)) }

\* The SortSpecs handed to prioritize_issues.
SortSpecs ==
    { DefaultSortBy,
      << [f |-> "due_date", reverse |-> FALSE] >>,
      << [f |-> "milestone_title", reverse |-> TRUE] >>,
      << [f |-> "epic_title", reverse |-> TRUE], [f |-> "milestone_title", reverse |-> FALSE] >>,
      << [f |-> "milestone_title", reverse |-> FALSE], [f |-> "updated_at", reverse |-> TRUE] >>,
      << [f |-> "updated_at", reverse |-> FALSE] >> }

\* The lists of at most n items.
RECURSIVE ListsUpTo(_)
ListsUpTo(n) ==
    IF n = 0 THEN { << >> }
    ELSE LET shorter == ListsUpTo(n - 1)
         IN  shorter \cup { Append(l, x) : l \in {m \in shorter : Len(m) = n - 1},
                                           x \in SortItems }

\* A caller hands a list and a SortSpec to prioritize_issues.
prioritize ==
    /\ ~sort_out.done
    /\ sort_out' = [done |-> TRUE, issues |-> prioritize_issues(sort_in, sort_by)]
    /\ UNCHANGED << appVars, threads, sort_in, sort_by, importVars >>

InitSort ==
    /\ now = 0
    /\ current_cache_timer = NoTimer
    /\ cache_timeout_seconds = DefaultTimeout
    /\ cache_file = MissingFile
    /\ issues_config = << >>
    /\ seen_issues = {}
    /\ response = NoResp
    /\ threads = NoThreads
    /\ sort_in \in ListsUpTo(MaxItems)
    /\ sort_by \in SortSpecs
    /\ sort_out = NoSort
    /\ api_issue = NoApiIssue
    /\ imported = NotImported

NextSort == prioritize

SpecSort == InitSort /\ [][NextSort]_vars

-----------------------------------------------------------------------------
(* One issue imported from a service's API                                  *)

\* The longest assignee list of an API issue.
MaxAssignees == 3

\* The user names the services know.
Handles == {"alice", "bob", "carol", "dave"}

\* The user names the application may be logged in with.
MyUsers == {"alice", "bob"}

\* The assignee lists of at most n users; a service lists a user once.
RECURSIVE AssigneeLists(_)
AssigneeLists(n) ==
    IF n = 0 THEN { << >> }
    ELSE LET shorter == AssigneeLists(n - 1)
         IN  shorter \cup
             { Append(l, u) : l \in {m \in shorter : Len(m) = n - 1},
                              u \in Handles }

\* No user is listed twice.
NoDuplicates(list) == \A i, j \in 1..Len(list) : list[i] = list[j] => i = j

\* The instant at which the issues are imported.
ImportNow == 1000000000

\* The ages now - updated_at of the imported issues, in seconds: around every
\* threshold of _time_ago, counts of one and of more than one, and an issue
\* updated after the clock was read.
Ages ==
    { 0 - 5, 0, 59, 60, 119, 120, 3599, 3600, 7199, 7200, 86399,
      86400, 2 * 86400 - 1, 2 * 86400, 7 * 86400 - 1, 7 * 86400, 14 * 86400 - 1,
      14 * 86400, 30 * 86400 - 1, 30 * 86400, 60 * 86400, 365 * 86400 - 1,
      365 * 86400, 730 * 86400 - 1, 730 * 86400, 4000 * 86400 }

\* _import_gitlab_issues / _import_github_issues on one issue: the display
\* fields of the IssueItem built.
import_issue ==
    /\ ~imported.done
    /\ imported' =
          [done |-> TRUE,
           assignee_users |-> _sort_assignees(api_issue.assignees, api_issue.myuser),
           updated_at_display |-> _time_ago(api_issue.updated_at, now)]
    /\ UNCHANGED << appVars, threads, sortVars, api_issue >>

InitImport ==
    /\ now = ImportNow
    /\ current_cache_timer = NoTimer
    /\ cache_timeout_seconds = DefaultTimeout
    /\ cache_file = MissingFile
    /\ issues_config = << >>
    /\ seen_issues = {}
    /\ response = NoResp
    /\ threads = NoThreads
    /\ sort_in = << >>
    /\ sort_by = << >>
    /\ sort_out = NoSort
    /\ api_issue \in [assignees : {l \in AssigneeLists(MaxAssignees) : NoDuplicates(l)},
                      myuser : MyUsers,
                      updated_at : {ImportNow - a : a \in Ages}]
    /\ imported = NotImported

NextImport == import_issue

SpecImport == InitImport /\ [][NextImport]_vars

-----------------------------------------------------------------------------
(* Cache manager claims                                                     *)

\* The staleness rule of the cache manager, stated on its own.
CacheValid ==
    current_cache_timer.set /\ now - current_cache_timer.at < cache_timeout_seconds

\* C1: an index request is served from the cache (get_all_issues is not
\* invoked, the persisted snapshot is returned, the timer is kept) if and only
\* if a last-fetch timestamp exists and now - lastFetch < ttl; otherwise it
\* invokes get_all_issues, sets the timestamp to now and persists the result
\* it got.
C1_CacheHitIffFresh ==
    [][index =>
        /\ response'.cache = CacheValid
        /\ response'.fetched = ~CacheValid
        /\ CacheValid =>
              /\ current_cache_timer' = current_cache_timer
              /\ response'.raw = read_issues_cache(cache_file, now).issues
        /\ ~CacheValid =>
              /\ current_cache_timer' = TimerAt(now)
              /\ response'.status = "ok" => cache_file' = write_issues_cache(response'.raw)
    ]_vars

\* C1 witness: with ttl = 600 the snapshot fetched at t = 0 is served from the
\* cache at t = 599.
C1_Witness ==
    /\ cache_timeout_seconds = 600
    /\ now = 599
    /\ current_cache_timer = TimerAt(0)
    /\ response.op = "index" /\ response.cache /\ ~response.fetched
    /\ Len(response.raw) = 2

\* C2: when get_all_issues fails during the refresh of a stale cache, the
\* persisted snapshot and the last-fetch timestamp are both as they were
\* before the request.
C2_FailedRefreshKeepsSnapshotAndTimer ==
    [][(index /\ current_cache_timer.set /\ response'.fetched
              /\ response'.status = "error") =>
        /\ cache_file' = cache_file
        /\ current_cache_timer' = current_cache_timer
    ]_vars

\* C3: the reload request clears the last-fetch timestamp and leaves the
\* persisted snapshot, the override mapping and the seen-set as they are; the
\* index request that finds the timer cleared is a cache miss, whatever the
\* timeout.
C3_InvalidateClearsTimerOnly ==
    [][/\ reload =>
            /\ current_cache_timer' = NoTimer
            /\ UNCHANGED << cache_file, issues_config, seen_issues >>
       /\ (index /\ current_cache_timer = NoTimer) =>
            /\ ~response'.cache
            /\ response'.fetched
    ]_vars

\* C3 witness: a reload that cleared a running timer while a snapshot,
\* overrides and seen ids were stored.
C3_Witness ==
    /\ response.op = "reload"
    /\ current_cache_timer = NoTimer
    /\ cache_file.kind = "json" /\ Len(cache_file.elems) = 2
    /\ issues_config # << >>
    /\ seen_issues # {}
    /\ now < cache_timeout_seconds

\* The items the sources that answered contribute, in source order.
RECURSIVE AnsweredItems(_, _)
AnsweredItems(i, fetch) ==
    IF i > Len(fetch) THEN << >>
    ELSE (IF fetch[i].ok THEN fetch[i].items ELSE << >>) \o AnsweredItems(i + 1, fetch)

\* C6: when one of several sources fails to answer, the aggregation still
\* completes and returns the items of the other sources.
C6_SourceFailureDoesNotCascade ==
    [][\A fetch \in FetchOutcomes :
          (/\ index_served(fetch)
           /\ response'.fetched
           /\ \E i \in 1..Len(fetch) : ~fetch[i].ok
           /\ \E i \in 1..Len(fetch) : fetch[i].ok) =>
              /\ response'.status = "ok"
              /\ response'.raw = AnsweredItems(1, fetch)
    ]_vars

\* C7: an index request served from the cache completes whatever state the
\* cache file is in, with an empty snapshot unless the file holds a list of
\* item records.
C7_CacheReadNeverFatal ==
    [][(index /\ response'.cache) =>
          /\ response'.status = "ok"
          /\ (cache_file.kind # "json" \/ cache_file.t # "arr"
                 \/ \E i \in 1..Len(cache_file.elems) : ~LoadsAsItem(cache_file.elems[i]))
                => response'.raw = << >>
    ]_vars

\* C8: the snapshot a refresh persists reads back as the list that was
\* written, field by field (updated_at with its type), so that the cached list
\* is prioritised in the same order as the fresh one.
C8_CacheRoundTrip ==
    [][(index /\ response'.fetched /\ response'.status = "ok") =>
          LET back == read_issues_cache(cache_file', now).issues
          IN  /\ back = response'.raw
              /\ prioritize_issues(back, DefaultSortBy)
                    = prioritize_issues(response'.raw, DefaultSortBy)
    ]_vars

-----------------------------------------------------------------------------
(* Override store claims                                                    *)

\* The last request was /ranking with this issue and rank.
JustRanked(issue, rank) ==
    response.op = "ranking" /\ response.issue = issue /\ response.rank = rank

\* The override mapping as the next request leaves it when that request is
\* setRanking(issue, rank).
AfterNext(issue, rank) == set_ranking(issues_config, issue, rank).config

\* Every id other than issue has the same entry, or none, in both mappings.
OthersUnchanged(before, after, issue) ==
    /\ DOMAIN after \ {issue} = DOMAIN before \ {issue}
    /\ \A k \in DOMAIN before \ {issue} : after[k] = before[k]

\* C4 as claimed: for every non-empty id, every rank name and every prior
\* override mapping, once setRanking(id, name) has been served, an immediately
\* following setRanking(id, name) leaves no entry for id, and the entries of
\* the other ids are unchanged.
C4_TwiceRemovesAlways ==
    \A issue \in IssueIds \ {""}, rank \in RankNames :
        JustRanked(issue, rank) =>
            /\ issue \notin DOMAIN AfterNext(issue, rank)
            /\ OthersUnchanged(issues_config, AfterNext(issue, rank), issue)

\* C4 amended: once setRanking(id, name) has been served, an immediately
\* following setRanking(id, name) leaves no entry for id when the first one
\* stored the rank (the mapping did not already hold rank(name) for id); when
\* the first one removed an entry that already held rank(name), the second
\* stores it again. The entries of the other ids are unchanged.
C4_TwiceRemovesWhatFirstSet ==
    \A issue \in IssueIds \ {""}, rank \in RankNames :
        JustRanked(issue, rank) =>
            /\ OthersUnchanged(issues_config, AfterNext(issue, rank), issue)
            /\ response.log = "Setting" => issue \notin DOMAIN AfterNext(issue, rank)
            /\ response.log = "Resetting" =>
                  /\ issue \in DOMAIN AfterNext(issue, rank)
                  /\ AfterNext(issue, rank)[issue] = RankInt(rank)

\* C4 witness: a repeated setRanking removed the entry of one id while
\* another id keeps its override.
C4_Witness ==
    /\ response.op = "ranking" /\ response.log = "Resetting"
    /\ response.issue = "github-1"
    /\ "github-1" \notin DOMAIN issues_config
    /\ "gitlab-7" \in DOMAIN issues_config

-----------------------------------------------------------------------------
(* Seen-set claims                                                          *)

\* The uids of a list of issues.
Uids(issues) == {issues[i].uid : i \in 1..Len(issues)}

\* C10: no request removes an id from the seen-set; a ranking request and a
\* mark-as-seen request add their ids to it and nothing else does; and the new
\* ids an index request returns are exactly the ids of the current items that
\* are not in the seen-set, so never an id passed to one of those requests
\* before and every other id of the items.
C10_NewIdsAreTheUnseenOnes ==
    [][/\ seen_issues \subseteq seen_issues'
       /\ \A issue \in IssueIds, rank \in RankNames :
             (response'.op = "ranking" /\ ranking(issue, rank)) =>
                 seen_issues' = seen_issues \cup {issue}
       /\ \A issues \in SeenArgs :
             (response'.op = "mark_as_seen" /\ mark_as_seen(issues)) =>
                 seen_issues' = seen_issues \cup {issues[i] : i \in 1..Len(issues)}
       /\ seen_issues' # seen_issues =>
             \/ \E issue \in IssueIds, rank \in RankNames : ranking(issue, rank)
             \/ \E issues \in SeenArgs : mark_as_seen(issues)
       /\ (response'.op = "index" /\ response'.status = "ok" /\ index) =>
             response'.new_issues = Uids(response'.raw) \ seen_issues
    ]_vars

\* C10 witness: an index page of two items of which one was ranked or marked
\* before and the other is reported as new.
C10_Witness ==
    /\ response.op = "index" /\ response.status = "ok"
    /\ Uids(response.raw) = {"github-1", "gitlab-7"}
    /\ "github-1" \in seen_issues
    /\ response.new_issues = {"gitlab-7"}

-----------------------------------------------------------------------------
(* Concurrency claims                                                       *)

\* Every request thread has answered.
AllDone == \A w \in Workers : threads[w].pc = "done"

\* The override mapping holds what thread w's request asked for.
EffectVisible(w) ==
    /\ threads[w].log = "Setting" =>
          /\ threads[w].issue \in DOMAIN issues_config
          /\ issues_config[threads[w].issue] = RankInt(threads[w].rank)
    /\ threads[w].log = "Resetting" => threads[w].issue \notin DOMAIN issues_config

\* C5: when concurrent setRanking requests for different ids have all been
\* answered, the override mapping holds the effect of each of them.
C5_NoLostRankUpdate ==
    (/\ threads # NoThreads
     /\ AllDone
     /\ \A v, w \in Workers : v # w => threads[v].issue # threads[w].issue
     /\ \A w \in Workers : threads[w].issue # "")
        => \A w \in Workers : EffectVisible(w)

-----------------------------------------------------------------------------
(* Ranking engine claims                                                    *)

\* The issue's value for the field is the empty string.
EmptyValue(issue, f) == GetAttr(issue, f) = TXT(EmptyStr)

\* Two issues have the same sort key components on the first n keys.
SameEarlierKeys(a, b, n) ==
    \A m \in 1..n : KeyPart(a, sort_by[m]) = KeyPart(b, sort_by[m])

\* C9 as claimed: for every key of the SortSpec, no item with an empty value
\* for that key is placed before an item with a non-empty value for it.
C9_EmptyLastForEveryKey ==
    sort_out.done =>
        \A k \in 1..Len(sort_by) :
            \A i, j \in 1..Len(sort_out.issues) :
                (i < j /\ EmptyValue(sort_out.issues[i], sort_by[k].f))
                    => EmptyValue(sort_out.issues[j], sort_by[k].f)

\* C9 amended: for every key of the SortSpec, ascending or descending, no
\* item with an empty value for that key is placed before an item with a
\* non-empty value for it that has the same sort key on all earlier keys; for
\* the first key this is every item.
C9_EmptyLastAmongEarlierTies ==
    sort_out.done =>
        \A k \in 1..Len(sort_by) :
            \A i, j \in 1..Len(sort_out.issues) :
                (/\ i < j
                 /\ EmptyValue(sort_out.issues[i], sort_by[k].f)
                 /\ SameEarlierKeys(sort_out.issues[i], sort_out.issues[j], k - 1))
                    => EmptyValue(sort_out.issues[j], sort_by[k].f)

\* C9 witness: under the default SortSpec two issues without due date were
\* ordered by the second key, descending: the one with a milestone is placed
\* before the one without.
C9_Witness ==
    /\ sort_out.done
    /\ sort_by = DefaultSortBy
    /\ Len(sort_in) = 2
    /\ EmptyValue(sort_in[1], "due_date") /\ EmptyValue(sort_in[2], "due_date")
    /\ EmptyValue(sort_in[1], "milestone_title")
    /\ ~EmptyValue(sort_in[2], "milestone_title")
    /\ sort_out.issues = << sort_in[2], sort_in[1] >>

\* The tasks prioritize_issues sorts: the list handed in, None replaced.
SortedInput == [i \in 1..Len(sort_in) |-> _replace_none_with_empty_string(sort_in[i])]

\* Two issues are equal on every key of the SortSpec: the same text after
\* case folding (both empty included), the same epoch seconds.
EqualOnEveryKey(a, b) ==
    \A k \in 1..Len(sort_by) :
        KeyText(GetAttr(a, sort_by[k].f)) = KeyText(GetAttr(b, sort_by[k].f))

\* The issues of a list that are equal to x on every key, in list order.
KeyClass(list, x) == SelectSeq(list, LAMBDA y : EqualOnEveryKey(y, x))

\* How often x occurs in a list.
Occurrences(list, x) == Cardinality({i \in 1..Len(list) : list[i] = x})

\* C11: prioritize_issues returns a permutation of the tasks handed in, and
\* the issues that are equal on every key of the SortSpec (after case folding
\* and empty-value handling) come out in the order they went in.
C11_StableSort ==
    sort_out.done =>
        /\ Len(sort_out.issues) = Len(SortedInput)
        /\ \A x \in SortItems \cup {sort_out.issues[i] : i \in 1..Len(sort_out.issues)} :
               Occurrences(sort_out.issues, x) = Occurrences(SortedInput, x)
        /\ \A i \in 1..Len(SortedInput) :
               KeyClass(sort_out.issues, SortedInput[i]) = KeyClass(SortedInput, SortedInput[i])

\* C11 witness: sorted by milestone, descending, an issue with milestone "v1"
\* and a later one with "V1" (equal after case folding) were both overtaken
\* by the issue between them and kept their order.
C11_Witness ==
    /\ sort_out.done
    /\ Len(sort_in) = 3
    /\ sort_by = << [f |-> "milestone_title", reverse |-> TRUE] >>
    /\ sort_in[1].milestone_title = MsV1
    /\ sort_in[3].milestone_title = MsV1Upper
    /\ sort_out.issues = << sort_in[2], sort_in[1], sort_in[3] >>

\* The case-folded text of the issue's value for the k-th key of the SortSpec.
Folded(issue, k) == Lower(GetAttr(issue, sort_by[k].f).text)

\* The issues at places i < j of the result both have a non-empty str value
\* for the k-th key and the same sort key on all earlier keys.
ComparedOnKey(i, j, k) ==
    /\ i < j
    /\ GetAttr(sort_out.issues[i], sort_by[k].f).type = "str"
    /\ GetAttr(sort_out.issues[j], sort_by[k].f).type = "str"
    /\ ~EmptyValue(sort_out.issues[i], sort_by[k].f)
    /\ ~EmptyValue(sort_out.issues[j], sort_by[k].f)
    /\ SameEarlierKeys(sort_out.issues[i], sort_out.issues[j], k - 1)

\* C14: among issues with a non-empty value for a key and equal on all
\* earlier keys, a descending key places no issue before one whose
\* case-folded value is greater in ascending order (a proper prefix being
\* smaller), and an ascending key, also one after a descending key, places
\* no issue before one whose value is smaller.
C14_DescendingIsReverseOfAscending ==
    sort_out.done =>
        \A k \in 1..Len(sort_by) :
            \A i, j \in 1..Len(sort_out.issues) :
                ComparedOnKey(i, j, k) =>
                    IF sort_by[k].reverse
                    THEN ~StrLess(Folded(sort_out.issues[i], k), Folded(sort_out.issues[j], k))
                    ELSE ~StrLess(Folded(sort_out.issues[j], k), Folded(sort_out.issues[i], k))

\* C15: when updated_at is a key, of two issues that are equal on all earlier
\* keys the one with the later instant is placed first under descending
\* order and last under ascending order, whatever the number of digits of
\* the epoch seconds.
C15_TimestampsComparedNumerically ==
    sort_out.done =>
        \A k \in 1..Len(sort_by) :
            \A i, j \in 1..Len(sort_out.issues) :
                (/\ i < j
                 /\ sort_by[k].f = "updated_at"
                 /\ sort_out.issues[i].updated_at.type = "datetime"
                 /\ sort_out.issues[j].updated_at.type = "datetime"
                 /\ SameEarlierKeys(sort_out.issues[i], sort_out.issues[j], k - 1))
                    => IF sort_by[k].reverse
                       THEN sort_out.issues[i].updated_at.epoch >= sort_out.issues[j].updated_at.epoch
                       ELSE sort_out.issues[i].updated_at.epoch <= sort_out.issues[j].updated_at.epoch

-----------------------------------------------------------------------------
(* Normalizer claims                                                        *)

\* The assignees other than the executing user, in list order.
OtherAssignees == SelectSeq(api_issue.assignees, LAMBDA u : u # api_issue.myuser)

\* ", " and the user name, for every user of the list in order.
RECURSIVE CommaEach(_)
CommaEach(list) ==
    IF list = << >> THEN "" ELSE ", " \o Head(list) \o CommaEach(Tail(list))

\* C12: _sort_assignees leaves out the executing user's name; it returns ""
\* when no other assignee remains, and otherwise "Me" followed by the other
\* assignees in their input order, each after ", ".
C12_AssigneesDisplay ==
    imported.done =>
        imported.assignee_users =
            IF OtherAssignees = << >> THEN "" ELSE "Me" \o CommaEach(OtherAssignees)

\* C12 witness: the executing user alice and bob are assigned, and the field
\* reads "Me, bob".
C12_Witness ==
    /\ imported.done
    /\ api_issue.myuser = "alice"
    /\ api_issue.assignees = << "alice", "bob" >>
    /\ imported.assignee_users = "Me, bob"

\* The age now - updated_at of the imported issue, in seconds.
Age == now - api_issue.updated_at

\* The buckets of the relative age in their order of precedence: the least
\* age of the bucket, which is also its size, in seconds, and its unit.
AgeBuckets ==
    << [size |-> 365 * 86400, unit |-> "year"],
       [size |-> 30 * 86400, unit |-> "month"],
       [size |-> 7 * 86400, unit |-> "week"],
       [size |-> 86400, unit |-> "day"],
       [size |-> 3600, unit |-> "hour"],
       [size |-> 60, unit |-> "minute"] >>

\* The first bucket in that order whose least age the age reaches.
FirstBucket(age) ==
    AgeBuckets[CHOOSE i \in 1..Len(AgeBuckets) :
                   /\ age >= AgeBuckets[i].size
                   /\ \A j \in 1..(i - 1) : age < AgeBuckets[j].size]

\* C13: for an age of at least 0, _time_ago returns "Just now" below 60
\* seconds and otherwise the count and unit of the first matching bucket
\* (years, months, weeks, days, hours, minutes), the count being the age
\* divided by the bucket size without remainder and the unit in the plural
\* exactly when the count is above 1.
C13_FirstMatchingBucket ==
    (imported.done /\ Age >= 0) =>
        imported.updated_at_display =
            IF Age < 60 THEN "Just now"
            ELSE LET count == Age \div FirstBucket(Age).size
                     unit  == FirstBucket(Age).unit
                 IN  IF count > 1
                     THEN ToString(count) \o " " \o unit \o "s ago"
                     ELSE ToString(count) \o " " \o unit \o " ago"

\* C13 witness: an issue updated exactly 365 days ago reads "1 year ago".
C13_Witness ==
    /\ imported.done
    /\ Age = 365 * 86400
    /\ imported.updated_at_display = "1 year ago"

=============================================================================
